---- MODULE Spec2Model ----
(***************************************************************************)
(* A model of summary-view.ts: the user script that locates the regions of *)
(* the account summary page, fetches the pending fund orders page, extracts *)
(* the orders and appends a summary table to the page.                     *)
(*                                                                         *)
(* Text is a sequence of one-character strings.  A DOM row is a sequence   *)
(* of cell texts.  A JavaScript number is an integer, with NaN as a        *)
(* distinguished value.                                                    *)
(***************************************************************************)
EXTENDS Integers, Sequences, FiniteSets, TLC

VARIABLES
    locale,             \* the runtime's default locale, read by Intl.NumberFormat()
    doc,                \* the account summary page the script runs on
    pc,                 \* where the run is
    page,               \* the fields of the AccountSummaryPage that accountSummaryPage returned
    lookups,            \* the regions accountSummaryPage looked up, in order
    error,              \* the message of the error that ended the run, "" when none
    requests,           \* the number of calls of fetch()
    root,               \* the parsed orders page
    orders,             \* the value fetchFundOrders resolved with
    orderTable,         \* the rows appended to the table element the callback builds
    totalPaymentAmount, \* the callback's accumulator
    children,           \* the children of valuationTable.parentNode
    text,               \* input of parsePaymentAmount
    amount,             \* input of formatPaymentAmount
    formatted,          \* formatPaymentAmount(amount)
    parsed              \* the value parsePaymentAmount returned

vars == <<locale, doc, pc, page, lookups, error, requests, root, orders,
          orderTable, totalPaymentAmount, children, text, amount, formatted, parsed>>

runVars == <<doc, page, lookups, error, requests, root, orders,
             orderTable, totalPaymentAmount, children>>

textVars == <<text, amount, formatted, parsed>>

-----------------------------------------------------------------------------
(* Bounds of the model *)

\* the largest number of rows of the orders table
MaxRows == 4

\* the largest number of tables in the left column
MaxLeftTables == 5

\* the longest arbitrary text given to parsePaymentAmount
MaxTextLen == 3

-----------------------------------------------------------------------------
(* Numbers and text *)

\* the value of parseInt on a string with no leading digit
NaN == -1

\* JavaScript's + on numbers
Plus(a, b) == IF a = NaN \/ b = NaN THEN NaN ELSE a + b

DigitChars == <<"0", "1", "2", "3", "4", "5", "6", "7", "8", "9">>

DigitSet == {DigitChars[i] : i \in 1..10}

DigitVal(c) == (CHOOSE i \in 1..10 : DigitChars[i] = c) - 1

\* the character class [0-9,]
NumCh == DigitSet \cup {","}

\* the character class \s, as far as the inputs have it
SpaceCh == {" "}

RECURSIVE ToDigits(_)
ToDigits(n) ==
    IF n < 10 THEN <<DigitChars[n + 1]>>
    ELSE Append(ToDigits(n \div 10), DigitChars[(n % 10) + 1])

\* the locales the runtime's default may be: one that groups digits with a
\* comma, one that groups them with a full stop
Locales == {"ja-JP", "de-DE"}

GroupSep(loc) == IF loc = "de-DE" THEN "." ELSE ","

RECURSIVE Group(_, _)
Group(ds, sep) ==
    IF Len(ds) <= 3 THEN ds
    ELSE Group(SubSeq(ds, 1, Len(ds) - 3), sep) \o <<sep>>
             \o SubSeq(ds, Len(ds) - 2, Len(ds))

\* new Intl.NumberFormat().format(n)
NumberFormat(loc, n) ==
    IF n = NaN THEN <<"N", "a", "N">> ELSE Group(ToDigits(n), GroupSep(loc))

formatPaymentAmount(loc, a) ==
    NumberFormat(loc, a.moneyAmount) \o <<"円", " ", "(">>
        \o NumberFormat(loc, a.pointAmount) \o <<"ポ", "イ", "ン", "ト", ")">>

\* s.replace(/,/g, '')
StripCommas(s) == SelectSeq(s, LAMBDA c : c # ",")

RECURSIVE DigitsValue(_)
DigitsValue(s) ==
    IF s = <<>> THEN 0
    ELSE 10 * DigitsValue(SubSeq(s, 1, Len(s) - 1)) + DigitVal(s[Len(s)])

\* parseInt on a string of digits: NaN when there is no digit
parseInt(s) == IF s = <<>> THEN NaN ELSE DigitsValue(s)

\* the index after the longest run of characters of class cls from p on
RECURSIVE RunEnd(_, _, _)
RunEnd(t, p, cls) ==
    IF p <= Len(t) /\ t[p] \in cls THEN RunEnd(t, p + 1, cls) ELSE p

\* t has the characters lit from index p on
HasAt(t, p, lit) ==
    /\ p + Len(lit) - 1 <= Len(t)
    /\ \A k \in 1..Len(lit) : t[p + k - 1] = lit[k]

\* ([0-9,]+)円 matches at p
MoneyMatchesAt(t, p) ==
    /\ t[p] \in NumCh
    /\ HasAt(t, RunEnd(t, p, NumCh), <<"円">>)

\* the value of String.prototype.match for no match
NULL == [null |-> TRUE]

\* text.match(/([0-9,]+)円(\s*\(([0-9,]+)ポイント\))?/): the groups 1 and 3
\* of the leftmost match, or NULL
Match(t) ==
    LET starts == {p \in 1..Len(t) : MoneyMatchesAt(t, p)} IN
    IF starts = {} THEN NULL
    ELSE
        LET p0 == CHOOSE p \in starts : \A q \in starts : p <= q
            e  == RunEnd(t, p0, NumCh)
            o  == RunEnd(t, e + 1, SpaceCh)
            r  == RunEnd(t, o + 1, NumCh)
            hasPoint ==
                /\ HasAt(t, o, <<"(">>)
                /\ r > o + 1
                /\ HasAt(t, r, <<"ポ", "イ", "ン", "ト", ")">>)
        IN  [g1 |-> SubSeq(t, p0, e - 1),
             has3 |-> hasPoint,
             g3 |-> IF hasPoint THEN SubSeq(t, o + 1, r - 1) ELSE <<>>]

parsePaymentAmount(t) ==
    LET match == Match(t) IN
    IF match = NULL THEN NULL
    ELSE [moneyAmount |-> parseInt(StripCommas(match.g1)),
          pointAmount |-> IF match.has3 THEN parseInt(StripCommas(match.g3)) ELSE 0]

-----------------------------------------------------------------------------
(* The account summary page and accountSummaryPage *)

\* the captions of the four tables findTitledTable looks for, romanised
Captions == <<"kabushiki (genbutsu/tokutei azukari)",
              "toushin (kingaku/tokutei azukari)",
              "toushin (kingaku/NISA azukari (seichou toushi waku))",
              "toushin (kingaku/NISA azukari (tsumitate toushi waku))">>

\* the regions accountSummaryPage looks up, in the order it evaluates them
Regions == <<"summaryTable", "map", "summaryPaneTable", "summaryPane",
             "allHeader", "accountInfo", "mainPane", "leftColumn", "rightColumn",
             "balanceTable", "nisaTable", "valuationTable",
             "stockTable", "fundTable", "nisaFundTable", "nisaTsumitateTable">>

\* the message of the error thrown when the k-th region is absent
Messages == <<"Top-level table not found", "Tabs not found",
              "Summary pane table not found", "Summary pane not found",
              "allHeader not found", "accountInfo not found", "mainPane not found",
              "Left column not found", "Right column not found",
              "Balance table not found", "NISA table not found",
              "Valuation table not found",
              "Table titled kabushiki (genbutsu/tokutei azukari) not found",
              "Table titled toushin (kingaku/tokutei azukari) not found",
              "Table titled toushin (kingaku/NISA azukari (seichou toushi waku)) not found",
              "Table titled toushin (kingaku/NISA azukari (tsumitate toushi waku)) not found">>

\* the fields of the interface AccountSummaryPage
PageFields == {"summaryTable", "allHeader", "accountInfo",
               "balanceTable", "nisaTable", "valuationTable",
               "stockTable", "fundTable", "nisaFundTable", "nisaTsumitateTable"}

\* A page: which elements the selectors of accountSummaryPage find in it.
\*   topTable  body has a table
\*   map       the table has map[name="tab_ac"]
\*   mapNext   the map has a next element sibling
\*   pane      that sibling has tbody > tr > td:nth-of-type(2)
\*   nTables   the number of tables in the pane
\*   leftCol, rightCol   tables[3] has td:nth-of-type(1), td:nth-of-type(3)
\*   nLeft     the number of sibling tables in the left column
\*   rightTitles   the captions of the tables in the right column
\* An element is in the page only inside the element that holds it.
WellFormed(d) ==
    /\ d.map => d.topTable
    /\ d.mapNext => d.map
    /\ d.pane => d.mapNext
    /\ d.nTables > 0 => d.pane
    /\ d.leftCol => d.nTables >= 4
    /\ d.rightCol => d.nTables >= 4
    /\ d.nLeft > 0 => d.leftCol
    /\ d.rightTitles # {} => d.rightCol

Docs ==
    {d \in [topTable : BOOLEAN, map : BOOLEAN, mapNext : BOOLEAN, pane : BOOLEAN,
            nTables : 0..4, leftCol : BOOLEAN, rightCol : BOOLEAN,
            nLeft : 0..MaxLeftTables,
            rightTitles : SUBSET {Captions[i] : i \in 1..4}] : WellFormed(d)}

\* the k-th lookup of accountSummaryPage finds an element
Present(d, k) ==
    CASE k = 1  -> d.topTable
      [] k = 2  -> d.map
      [] k = 3  -> d.mapNext
      [] k = 4  -> d.pane
      [] k = 5  -> d.nTables > 0
      [] k = 6  -> d.nTables > 1
      [] k = 7  -> d.nTables > 3
      [] k = 8  -> d.leftCol
      [] k = 9  -> d.rightCol
      [] k = 10 -> d.nLeft >= 1
      [] k = 11 -> d.nLeft >= 3
      [] k = 12 -> d.nLeft >= 4
      [] OTHER  -> Captions[k - 12] \in d.rightTitles

\* a traversal that carries on past an absent region and reports it at the end
RECURSIVE ensureFromKeepGoing(_, _, _)
ensureFromKeepGoing(d, k, found) ==
    IF k > Len(Regions)
    THEN [thrown |-> FALSE, message |-> "",
          lookups |-> Regions, page |-> found \cap PageFields]
    ELSE IF Present(d, k)
    THEN ensureFromKeepGoing(d, k + 1, found \cup {Regions[k]})
    ELSE LET rest == ensureFromKeepGoing(d, k + 1, found) IN
         [thrown |-> TRUE, message |-> Messages[k],
          lookups |-> rest.lookups, page |-> {}]

\* ensure and findTitledTable, from the k-th lookup on: the first absent
\* region throws, and nothing after it is evaluated
RECURSIVE ensureFrom(_, _, _)
ensureFrom(d, k, found) ==
    IF k > Len(Regions)
    THEN [thrown |-> FALSE, message |-> "",
          lookups |-> Regions, page |-> found \cap PageFields]
    ELSE IF Present(d, k)
    THEN ensureFrom(d, k + 1, found \cup {Regions[k]})
    ELSE [thrown |-> TRUE, message |-> Messages[k],
          lookups |-> SubSeq(Regions, 1, k), page |-> {}]

accountSummaryPage(d) == ensureFrom(d, 1, {})

\* the children of valuationTable.parentNode: the tables of the left column
Children(d) == [i \in 1..d.nLeft |-> [nthOfType |-> i, created |-> FALSE]]

-----------------------------------------------------------------------------
(* The orders page and fetchFundOrders *)

\* rows the orders table may hold: a row is the texts of its td cells
HeaderRow1 == << <<>>, <<"u", "k", "e">>, <<"F", "1">> >>
HeaderRow2 == << <<>>, <<"t", "o", "r", "i">>, <<"F", "2">> >>
DataRow1   == << <<>>, <<>>, <<"1", ",", "0", "0", "0", "円">> >>
DataRow2   == << <<>>, <<>>, <<"2", "円", " ", "(", "5", "ポ", "イ", "ン", "ト", ")">> >>
DataRowNA  == << <<>>, <<>>, <<"N", "/", "A">> >>
DataRowNaN == << <<>>, <<>>, <<",", "円">> >>
ShortRow   == << <<"-">> >>

RowSamples == {HeaderRow1, HeaderRow2, DataRow1, DataRow2, DataRowNA, DataRowNaN, ShortRow}

RowLists == UNION {[1..n -> RowSamples] : n \in 0..MaxRows}

\* the parsed orders page: whether it has table.md-l-table-01, and the
\* tbody > tr rows of that table
OrdersPages ==
    {[hasTable |-> FALSE, rows |-> <<>>]}
        \cup {[hasTable |-> TRUE, rows |-> rs] : rs \in RowLists}

\* a loop that breaks at the first pair whose amount does not parse
RECURSIVE extractFromBreak(_, _, _)
extractFromBreak(rows, i, acc) ==
    IF i > Len(rows)
    THEN [thrown |-> FALSE, message |-> "", orders |-> acc]
    ELSE IF i + 1 > Len(rows)
    THEN [thrown |-> TRUE, message |-> "TypeError: dataRow is undefined", orders |-> <<>>]
    ELSE IF Len(rows[i]) < 3
    THEN [thrown |-> TRUE, message |-> "TypeError: headerCells[2] is undefined", orders |-> <<>>]
    ELSE IF Len(rows[i + 1]) < 3
    THEN [thrown |-> TRUE, message |-> "TypeError: dataCells[2] is undefined", orders |-> <<>>]
    ELSE
        LET amt == parsePaymentAmount(rows[i + 1][3]) IN
        IF amt = NULL
        THEN [thrown |-> FALSE, message |-> "", orders |-> acc]
        ELSE extractFromBreak(rows, i + 2,
                 Append(acc, [name |-> rows[i][3], status |-> rows[i][2], amount |-> amt]))

\* the for loop of fetchFundOrders from row i on (i counts from 1 here, from
\* 0 in the code); reading a property of undefined throws a TypeError
RECURSIVE extractFrom(_, _, _)
extractFrom(rows, i, acc) ==
    IF i > Len(rows)
    THEN [thrown |-> FALSE, message |-> "", orders |-> acc]
    ELSE IF i + 1 > Len(rows)
    THEN [thrown |-> TRUE, message |-> "TypeError: dataRow is undefined", orders |-> <<>>]
    ELSE IF Len(rows[i]) < 3
    THEN [thrown |-> TRUE, message |-> "TypeError: headerCells[2] is undefined", orders |-> <<>>]
    ELSE IF Len(rows[i + 1]) < 3
    THEN [thrown |-> TRUE, message |-> "TypeError: dataCells[2] is undefined", orders |-> <<>>]
    ELSE
        LET amt == parsePaymentAmount(rows[i + 1][3]) IN
        IF amt = NULL
        THEN extractFrom(rows, i + 2, acc)
        ELSE extractFrom(rows, i + 2,
                 Append(acc, [name |-> rows[i][3], status |-> rows[i][2], amount |-> amt]))

\* fetchFundOrders after the response body has arrived
fetchFundOrders(r) ==
    IF ~r.hasTable
    THEN [thrown |-> TRUE, message |-> "Orders table not found", orders |-> <<>>]
    ELSE extractFrom(r.rows, 1, <<>>)

-----------------------------------------------------------------------------
(* The callback that builds and appends the table *)

ZeroAmount == [moneyAmount |-> 0, pointAmount |-> 0]

headerRow == [bg |-> "#414982", cells |-> << <<"|", " ", "c", "h", "u", "m", "o", "n">> >>]

\* a row whose parity test is inverted
orderRowOddLight(loc, order, i) ==
    [bg |-> IF i % 2 = 1 THEN "#ffffff" ELSE "#eeeeee",
     cells |-> <<order.name, order.status, formatPaymentAmount(loc, order.amount)>>]

\* the row of the order at index i (from 0)
orderRow(loc, order, i) ==
    [bg |-> IF i % 2 = 0 THEN "#ffffff" ELSE "#eeeeee",
     cells |-> <<order.name, order.status, formatPaymentAmount(loc, order.amount)>>]

summaryRow(loc, total) ==
    [bg |-> "#e6e5ff", cells |-> << <<"k", "e", "i">>, <<>>, formatPaymentAmount(loc, total)>>]

\* an accumulation that leaves the points out
addAmountMoneyOnly(total, a) ==
    [moneyAmount |-> Plus(total.moneyAmount, a.moneyAmount),
     pointAmount |-> total.pointAmount]

addAmount(total, a) ==
    [moneyAmount |-> Plus(total.moneyAmount, a.moneyAmount),
     pointAmount |-> Plus(total.pointAmount, a.pointAmount)]

\* orders.forEach from the order at index i (from 0) on
RECURSIVE forEachFrom(_, _, _, _, _)
forEachFrom(loc, ords, i, table, total) ==
    IF i >= Len(ords) THEN [table |-> table, total |-> total]
    ELSE forEachFrom(loc, ords, i + 1,
                     Append(table, orderRow(loc, ords[i + 1], i)),
                     addAmount(total, ords[i + 1].amount))

\* the table after the callback has appended the header, the order rows and
\* the summary row
buildOrderTable(loc, ords) ==
    LET r == forEachFrom(loc, ords, 0, <<headerRow>>, ZeroAmount) IN
    [table |-> Append(r.table, summaryRow(loc, r.total)), total |-> r.total]

\* parentNode.appendChild(orderTable)
appendChild(kids, node) == Append(kids, node)

newTable(kids) == [nthOfType |-> Len(kids) + 1, created |-> TRUE]

-----------------------------------------------------------------------------
(* The run of the script *)

NoRoot == [hasTable |-> FALSE, rows |-> <<>>]

\* a document with nothing in its body
EmptyDoc == [topTable |-> FALSE, map |-> FALSE, mapNext |-> FALSE, pane |-> FALSE,
             nTables |-> 0, leftCol |-> FALSE, rightCol |-> FALSE, nLeft |-> 0,
             rightTitles |-> {}]

Init ==
    /\ locale \in Locales
    /\ doc \in Docs
    /\ pc = "start"
    /\ page = {}
    /\ lookups = <<>>
    /\ error = ""
    /\ requests = 0
    /\ root = NoRoot
    /\ orders = <<>>
    /\ orderTable = <<>>
    /\ totalPaymentAmount = ZeroAmount
    /\ children = Children(doc)
    /\ text = <<>>
    /\ amount = ZeroAmount
    /\ formatted = <<>>
    /\ parsed = NULL

\* a script body that starts the fetch before it locates the page
MainFetchFirst ==
    /\ pc = "start"
    /\ LET r == accountSummaryPage(doc) IN
        /\ lookups' = r.lookups
        /\ page' = r.page
        /\ error' = r.message
        /\ pc' = IF r.thrown THEN "failed" ELSE "awaitFetch"
        /\ requests' = requests + 1
    /\ UNCHANGED <<locale, doc, root, orders, orderTable, totalPaymentAmount, children>>
    /\ UNCHANGED textVars

\* the script body: accountSummaryPage(document), then the call of
\* fetchFundOrders up to its first await, which issues the request
Main ==
    /\ pc = "start"
    /\ LET r == accountSummaryPage(doc) IN
        /\ lookups' = r.lookups
        /\ page' = r.page
        /\ error' = r.message
        /\ pc' = IF r.thrown THEN "failed" ELSE "awaitFetch"
        /\ requests' = IF r.thrown THEN requests ELSE requests + 1
    /\ UNCHANGED <<locale, doc, root, orders, orderTable, totalPaymentAmount, children>>
    /\ UNCHANGED textVars

\* fetch(url) rejects
FetchRejects ==
    /\ pc = "awaitFetch"
    /\ pc' = "rejected"
    /\ error' = "fetch failed"
    /\ UNCHANGED <<locale, doc, page, lookups, requests, root, orders, orderTable,
                   totalPaymentAmount, children>>
    /\ UNCHANGED textVars

\* fetch(url) resolves; fetchPageDom awaits res.arrayBuffer()
FetchResolves ==
    /\ pc = "awaitFetch"
    /\ pc' = "awaitBody"
    /\ UNCHANGED <<locale, doc, page, lookups, error, requests, root, orders, orderTable,
                   totalPaymentAmount, children>>
    /\ UNCHANGED textVars

\* res.arrayBuffer() rejects
BodyRejects ==
    /\ pc = "awaitBody"
    /\ pc' = "rejected"
    /\ error' = "body failed"
    /\ UNCHANGED <<locale, doc, page, lookups, requests, root, orders, orderTable,
                   totalPaymentAmount, children>>
    /\ UNCHANGED textVars

\* the body arrives: it is decoded and parsed, and fetchFundOrders runs to
\* its end
BodyResolves ==
    /\ pc = "awaitBody"
    /\ \E r \in OrdersPages :
        LET x == fetchFundOrders(r) IN
        /\ root' = r
        /\ orders' = x.orders
        /\ error' = x.message
        /\ pc' = IF x.thrown THEN "rejected" ELSE "resolved"
    /\ UNCHANGED <<locale, doc, page, lookups, requests, orderTable,
                   totalPaymentAmount, children>>
    /\ UNCHANGED textVars

\* a callback registered with finally, which runs after a rejection too
ThenCallbackFinally ==
    /\ pc \in {"resolved", "rejected"}
    /\ LET b == buildOrderTable(locale, orders) IN
        /\ orderTable' = b.table
        /\ totalPaymentAmount' = b.total
    /\ children' = appendChild(children, newTable(children))
    /\ pc' = "done"
    /\ UNCHANGED <<locale, doc, page, lookups, error, requests, root, orders>>
    /\ UNCHANGED textVars

\* the then callback
ThenCallback ==
    /\ pc = "resolved"
    /\ LET b == buildOrderTable(locale, orders) IN
        /\ orderTable' = b.table
        /\ totalPaymentAmount' = b.total
    /\ children' = appendChild(children, newTable(children))
    /\ pc' = "done"
    /\ UNCHANGED <<locale, doc, page, lookups, error, requests, root, orders>>
    /\ UNCHANGED textVars

Next ==
    \/ Main
    \/ FetchRejects
    \/ FetchResolves
    \/ BodyRejects
    \/ BodyResolves
    \/ ThenCallback

Spec == Init /\ [][Next]_vars

-----------------------------------------------------------------------------
(* parsePaymentAmount and formatPaymentAmount on their own *)

Alphabet == {"1", "0", ",", "円", " ", "(", "x"}

ArbitraryTexts == UNION {[1..n -> Alphabet] : n \in 0..MaxTextLen}

SampleTexts ==
    { <<"1", "2", ",", "3", "4", "5", "円">>,
      <<"1", ",", "0", "0", "0", "円", " ", "(", "5", "0", "ポ", "イ", "ン", "ト", ")">>,
      <<"N", "/", "A">>,
      <<"x", "7", "円", "(", "3", "ポ", "イ", "ン", "ト", ")", "x">>,
      <<"7", "円", " ", " ", "(", "3", "ポ", "イ", "ン", "ト", ")">>,
      <<"7", "円", " ", "(", "3", "ポ", "イ", "ン", "ト">>,
      <<"7", "円", " ", "(", ",", "ポ", "イ", "ン", "ト", ")">>,
      <<"7", "円", " ", "(", "ポ", "イ", "ン", "ト", ")">>,
      <<"1", ".", "0", "0", "0", "円", " ", "(", "0", "ポ", "イ", "ン", "ト", ")">>,
      <<"(", "3", "ポ", "イ", "ン", "ト", ")">> }

Texts == ArbitraryTexts \cup SampleTexts

NumberSamples == {0, 7, 999, 1000, 12345, 1234567}

Amounts == [moneyAmount : NumberSamples, pointAmount : NumberSamples]

InitText ==
    /\ locale \in Locales
    /\ \/ pc = "parse" /\ text \in Texts /\ amount = ZeroAmount
       \/ pc = "format" /\ text = <<>> /\ amount \in Amounts
    /\ formatted = <<>>
    /\ parsed = NULL
    /\ doc = EmptyDoc
    /\ page = {}
    /\ lookups = <<>>
    /\ error = ""
    /\ requests = 0
    /\ root = NoRoot
    /\ orders = <<>>
    /\ orderTable = <<>>
    /\ totalPaymentAmount = ZeroAmount
    /\ children = <<>>

\* parsePaymentAmount(text)
Parse ==
    /\ pc = "parse"
    /\ parsed' = parsePaymentAmount(text)
    /\ pc' = "parsed"
    /\ UNCHANGED <<locale, text, amount, formatted>>
    /\ UNCHANGED runVars

\* formatPaymentAmount(amount)
Format ==
    /\ pc = "format"
    /\ formatted' = formatPaymentAmount(locale, amount)
    /\ pc' = "formatted"
    /\ UNCHANGED <<locale, text, amount, parsed>>
    /\ UNCHANGED runVars

\* parsePaymentAmount(formatPaymentAmount(amount))
ParseFormatted ==
    /\ pc = "formatted"
    /\ parsed' = parsePaymentAmount(formatted)
    /\ pc' = "roundtrip"
    /\ UNCHANGED <<locale, text, amount, formatted>>
    /\ UNCHANGED runVars

NextText ==
    \/ Parse
    \/ Format
    \/ ParseFormatted

SpecText == InitText /\ [][NextText]_vars

-----------------------------------------------------------------------------
(* Definitions the properties are stated with *)

\* fetchFundOrders has run on the table of the fetched orders page
Extracted == pc \in {"resolved", "rejected", "done"} /\ root.hasTable

\* every row among the first n has the three cells the loop reads
AllCells(rows, n) == \A i \in 1..n : Len(rows[i]) >= 3

\* the header/data pairs of the rows, in row order
Pairs(rows) ==
    [k \in 1..(Len(rows) \div 2) |-> [header |-> rows[2 * k - 1], data |-> rows[2 * k]]]

\* the orders of the pairs whose amount text parses, in row order
ExpectedOrders(rows) ==
    LET ok == SelectSeq(Pairs(rows), LAMBDA p : parsePaymentAmount(p.data[3]) # NULL) IN
    [k \in 1..Len(ok) |->
        [name |-> ok[k].header[3], status |-> ok[k].header[2],
         amount |-> parsePaymentAmount(ok[k].data[3])]]

\* the sum of a field of the orders' amounts, from the last order back
RECURSIVE SumMoney(_)
SumMoney(ords) ==
    IF ords = <<>> THEN 0 ELSE Plus(ords[1].amount.moneyAmount, SumMoney(Tail(ords)))

RECURSIVE SumPoint(_)
SumPoint(ords) ==
    IF ords = <<>> THEN 0 ELSE Plus(ords[1].amount.pointAmount, SumPoint(Tail(ords)))

\* the regions absent from the page, by their place in the traversal
Missing(d) == {k \in 1..Len(Regions) : ~Present(d, k)}

FirstMissing(d) == CHOOSE k \in Missing(d) : \A j \in Missing(d) : k <= j

\* the places of the tables the callback created among the children
CreatedAt == {k \in 1..Len(children) : children[k].created}

\* the place of the valuation table among the children
AnchorAt == CHOOSE k \in 1..Len(children) :
                ~children[k].created /\ children[k].nthOfType = 4

-----------------------------------------------------------------------------
(* Properties *)

\* C1: when the orders table has an odd number of rows, fetchFundOrders does
\* not throw: it resolves with the orders of the complete pairs.
C1_OddRowsStopAtLastPair ==
    (/\ Extracted
     /\ Len(root.rows) % 2 = 1
     /\ AllCells(root.rows, Len(root.rows) - 1))
    => /\ pc # "rejected"
       /\ orders = ExpectedOrders(root.rows)

\* C2: the callback inserts the new table as the next sibling of the
\* valuation table, whatever children follow the valuation table.
C2_InsertedRightAfterAnchor ==
    pc = "done" =>
        /\ AnchorAt + 1 <= Len(children)
        /\ children[AnchorAt + 1].created

\* C3: for a table of complete header/data pairs fetchFundOrders resolves
\* with exactly the pairs whose amount text parses, in row order; a pair
\* whose amount does not parse is skipped and nothing throws.
C3_ExtractParsablePairsInOrder ==
    (/\ Extracted
     /\ Len(root.rows) % 2 = 0
     /\ AllCells(root.rows, Len(root.rows)))
    => /\ pc # "rejected"
       /\ error = ""
       /\ orders = ExpectedOrders(root.rows)

\* C3 witness: the first pair's amount does not parse, the second pair's
\* does, and the second pair is the one order extracted.
C3_Witness ==
    /\ pc = "resolved"
    /\ Len(root.rows) = 4
    /\ AllCells(root.rows, 4)
    /\ parsePaymentAmount(root.rows[2][3]) = NULL
    /\ parsePaymentAmount(root.rows[4][3]) # NULL
    /\ Len(orders) = 1
    /\ orders[1].name = root.rows[3][3]

\* C4: the amount of the totals row is the sum of the money amounts and the
\* sum of the point amounts of the extracted orders, from {0, 0}; with no
\* order it is {0, 0}.
C4_TotalsArePairwiseSum ==
    pc = "done" =>
        /\ totalPaymentAmount =
               [moneyAmount |-> SumMoney(orders), pointAmount |-> SumPoint(orders)]
        /\ orderTable[Len(orderTable)].cells[3] =
               formatPaymentAmount(locale, [moneyAmount |-> SumMoney(orders),
                                            pointAmount |-> SumPoint(orders)])
        /\ orders = <<>> => totalPaymentAmount = ZeroAmount

\* C4 witness: two orders with different amounts have been totalled.
C4_Witness ==
    /\ pc = "done"
    /\ Len(orders) = 2
    /\ orders[1].amount # orders[2].amount
    /\ totalPaymentAmount = [moneyAmount |-> 1002, pointAmount |-> 5]

\* C5: accountSummaryPage throws at the first absent region in traversal
\* order, with the message of that region and no lookup after it, and
\* returns a page only with every field resolved.
C5_LocateFailFast ==
    pc # "start" =>
        IF Missing(doc) = {}
        THEN /\ pc # "failed"
             /\ page = PageFields
             /\ lookups = Regions
        ELSE /\ pc = "failed"
             /\ error = Messages[FirstMissing(doc)]
             /\ lookups = SubSeq(Regions, 1, FirstMissing(doc))
             /\ page = {}

\* C5 witness: the second captioned table is absent while the first and the
\* two after it are present, and the error names the second.
C5_Witness ==
    /\ pc = "failed"
    /\ doc.rightTitles = {Captions[1], Captions[3], Captions[4]}
    /\ error = Messages[14]
    /\ lookups[Len(lookups)] = "fundTable"

\* C6: the request is issued only after accountSummaryPage has returned a
\* page; when it throws, no request is sent and the page is not modified.
C6_LocateBeforeFetch ==
    /\ requests > 0 => (page = PageFields /\ Missing(doc) = {})
    /\ pc = "failed" => (requests = 0 /\ children = Children(doc) /\ orderTable = <<>>)
    /\ Missing(doc) # {} => (requests = 0 /\ children = Children(doc))

\* C6 witness: accountSummaryPage has thrown on a page that has its left
\* column and lacks a captioned table.
C6_Witness ==
    /\ pc = "failed"
    /\ doc.nLeft >= 4
    /\ requests = 0

\* C7: the table is inserted only after fetchFundOrders has resolved with
\* the whole order list; when the fetch fails, the orders table is absent or
\* the extraction throws, the page is unchanged; at most one request is
\* issued and at most one table is inserted.
C7_NoPartialRenderNoRetry ==
    /\ children # Children(doc) =>
           /\ pc = "done"
           /\ ~fetchFundOrders(root).thrown
           /\ orders = fetchFundOrders(root).orders
           /\ Len(orderTable) = Len(orders) + 2
    /\ pc = "rejected" => (children = Children(doc) /\ orderTable = <<>>)
    /\ requests <= 1
    /\ Cardinality(CreatedAt) <= 1
    /\ pc = "done" => children = Append(Children(doc), newTable(Children(doc)))

\* C7 witness: the extraction has thrown on a dangling header row after one
\* request.
C7_Witness ==
    /\ pc = "rejected"
    /\ root.hasTable
    /\ Len(root.rows) = 3
    /\ requests = 1

\* C8: parsePaymentAmount(formatPaymentAmount(a)) = a for every amount of
\* non-negative integers.
C8_ParseFormatRoundTrip ==
    pc = "roundtrip" => parsed = amount

\* C9: parsePaymentAmount returns null exactly when the text has no currency
\* match, and otherwise an amount of two non-negative integers, the points 0
\* when the point group is absent.
C9_ParseTotalNonNegative ==
    pc = "parsed" =>
        /\ parsed = NULL <=> ~(\E p \in 1..Len(text) : MoneyMatchesAt(text, p))
        /\ parsed # NULL =>
               /\ parsed.moneyAmount \in Nat
               /\ parsed.pointAmount \in Nat
               /\ ~Match(text).has3 => parsed.pointAmount = 0

\* C10: for N orders the table has N + 2 rows: the header row, then one row
\* per order in extraction order, light for an even index and shaded for an
\* odd one, then the totals row.
C10_TableRows ==
    pc = "done" =>
        /\ Len(orderTable) = Len(orders) + 2
        /\ orderTable[1] = headerRow
        /\ \A i \in 0..(Len(orders) - 1) :
               /\ orderTable[i + 2].cells[1] = orders[i + 1].name
               /\ orderTable[i + 2].cells[2] = orders[i + 1].status
               /\ orderTable[i + 2].cells[3] = formatPaymentAmount(locale, orders[i + 1].amount)
               /\ orderTable[i + 2].bg = IF i % 2 = 0 THEN "#ffffff" ELSE "#eeeeee"
        /\ orderTable[Len(orderTable)].bg = "#e6e5ff"
        /\ orderTable[Len(orderTable)].cells[1] = <<"k", "e", "i">>

\* C10 witness: a table of two orders, the first row light and the second
\* shaded.
C10_Witness ==
    /\ pc = "done"
    /\ Len(orders) = 2
    /\ Len(orderTable) = 4
    /\ orderTable[2].bg = "#ffffff"
    /\ orderTable[3].bg = "#eeeeee"

====
